---------------------------- MODULE Spec2Model ----------------------------
(***************************************************************************)
(* Model of setup.py of imx-starknet: the evaluation of the one statement  *)
(* of the script, a call of setuptools.setup() with literal keyword        *)
(* arguments.                                                              *)
(*                                                                         *)
(* Python evaluates the keyword arguments of a call left to right and      *)
(* then makes the call, so the script is a straight line of steps: the     *)
(* import (line 1), one step per keyword argument (lines 4-15) and the     *)
(* call (lines 3-16).  The only input of the script is its command line:   *)
(* setup() reads the commands to run from sys.argv[1:].                    *)
(*                                                                         *)
(* A Python string is modelled as the sequence of its characters, so that  *)
(* emptiness, equality and the characters of a requirement string are all  *)
(* things the model can tell apart.                                        *)
(***************************************************************************)
EXTENDS Naturals, Sequences, FiniteSets, TLC

VARIABLES
    pc,           \* the next step of the script
    kwargs,       \* the keyword arguments evaluated so far: key -> value
    descriptor,   \* the keyword arguments setup() received (empty before the call)
    calls,        \* how many times setup() has been called
    script_args   \* sys.argv[1:], the commands given on the command line

vars == <<pc, kwargs, descriptor, calls, script_args>>

\* The longest command line explored.
MaxArgs == 2

\* Commands a setup script is run with.
Commands == {"build", "sdist", "install"}

RECURSIVE SeqsUpTo(_, _)
SeqsUpTo(S, n) ==
    IF n = 0 THEN {<<>>}
    ELSE LET shorter == SeqsUpTo(S, n - 1)
         IN  shorter \cup {Append(s, c) : s \in {t \in shorter : Len(t) = n - 1}, c \in S}

CommandLines == SeqsUpTo(Commands, MaxArgs)

---------------------------------------------------------------------------
(* The literals of the script. *)

NameAsTitle ==
    <<"I", "m", "m", "u", "t", "a", "b", "l", "e", " ", "X", " ", "S", "t",
      "a", "r", "k", "N", "e", "t", " ", "C", "o", "n", "t", "r", "a", "c",
      "t", "s">>

\* name='immutablex-starknet'
Name ==
    <<"i", "m", "m", "u", "t", "a", "b", "l", "e", "x", "-", "s", "t", "a",
      "r", "k", "n", "e", "t">>

VersionNext == <<"0", ".", "1", ".", "1">>

\* version='0.1.0'
Version == <<"0", ".", "1", ".", "0">>

\* description='Immutable X StarkNet Contracts'
Description ==
    <<"I", "m", "m", "u", "t", "a", "b", "l", "e", " ", "X", " ", "S", "t",
      "a", "r", "k", "N", "e", "t", " ", "C", "o", "n", "t", "r", "a", "c",
      "t", "s">>

\* url=''
Url == <<>>

\* author='Immutable'
Author == <<"I", "m", "m", "u", "t", "a", "b", "l", "e">>

LicenseMIT == <<"M", "I", "T">>

\* license='Apache-2.0'
License == <<"A", "p", "a", "c", "h", "e", "-", "2", ".", "0">>

PackagesWithTests ==
    << <<"i", "m", "m", "u", "t", "a", "b", "l", "e", "x">>,
       <<"t", "e", "s", "t", "s">> >>

\* packages=['immutablex']
Packages == << <<"i", "m", "m", "u", "t", "a", "b", "l", "e", "x">> >>

\* include_package_data=True
IncludePackageData == TRUE

\* 'openzeppelin-cairo-contracts'
OpenzeppelinCairoContracts ==
    <<"o", "p", "e", "n", "z", "e", "p", "p", "e", "l", "i", "n", "-", "c",
      "a", "i", "r", "o", "-", "c", "o", "n", "t", "r", "a", "c", "t", "s">>

CairolibPinned ==
    <<"c", "a", "i", "r", "o", "l", "i", "b", ">", "=", "0", ".", "1">>

\* 'cairolib'
Cairolib == <<"c", "a", "i", "r", "o", "l", "i", "b">>

InstallRequiresMissing == <<OpenzeppelinCairoContracts>>

InstallRequiresSelf == <<OpenzeppelinCairoContracts, Cairolib, Name>>

\* install_requires=['openzeppelin-cairo-contracts', 'cairolib']
InstallRequires == <<OpenzeppelinCairoContracts, Cairolib>>

---------------------------------------------------------------------------
(* The steps of the script. *)

Init ==
    /\ pc = "import"
    /\ kwargs = <<>>
    /\ descriptor = <<>>
    /\ calls = 0
    /\ script_args \in CommandLines

\* from setuptools import setup
Import ==
    /\ pc = "import"
    /\ pc' = "name"
    /\ UNCHANGED <<kwargs, descriptor, calls, script_args>>

\* Binds keyword `key` to `value` and moves on to step `next`.
Bind(at, key, value, next) ==
    /\ pc = at
    /\ kwargs' = kwargs @@ (key :> value)
    /\ pc' = next
    /\ UNCHANGED <<descriptor, calls, script_args>>

EvalName == Bind("name", "name", Name, "version")

EvalVersion == Bind("version", "version", Version, "description")

EvalDescription == Bind("description", "description", Description, "url")

EvalUrl == Bind("url", "url", Url, "author")

EvalAuthor == Bind("author", "author", Author, "license")

EvalLicense == Bind("license", "license", License, "packages")

EvalPackages == Bind("packages", "packages", Packages, "include_package_data")

EvalIncludePackageData ==
    Bind("include_package_data", "include_package_data", IncludePackageData,
         "install_requires")

EvalInstallRequires ==
    Bind("install_requires", "install_requires", InstallRequires, "call")

CallSetupPerCommand ==
    /\ pc = "call"
    /\ descriptor' =
         IF script_args = <<>> THEN kwargs
         ELSE [kwargs EXCEPT !["version"] = VersionNext]
    /\ calls' = calls + 1
    /\ pc' = "done"
    /\ UNCHANGED <<kwargs, script_args>>

\* setup(...): the call receives the keyword arguments as evaluated.
CallSetup ==
    /\ pc = "call"
    /\ descriptor' = kwargs
    /\ calls' = calls + 1
    /\ pc' = "done"
    /\ UNCHANGED <<kwargs, script_args>>

Next ==
    \/ Import
    \/ EvalName
    \/ EvalVersion
    \/ EvalDescription
    \/ EvalUrl
    \/ EvalAuthor
    \/ EvalLicense
    \/ EvalPackages
    \/ EvalIncludePackageData
    \/ EvalInstallRequires
    \/ CallSetup

Spec == Init /\ [][Next]_vars

---------------------------------------------------------------------------
(* Vocabulary of the properties. *)

\* setup() has been called and holds its descriptor.
Called == calls >= 1

IdentityFields == {"name", "version", "description", "url", "author", "license"}

\* The comparison operators of a version specifier, and the url marker.
SpecifierOperators ==
    { <<"=", "=">>, <<">", "=">>, <<"<", "=">>, <<"~", "=">>, <<"!", "=">>,
      <<"<">>, <<">">>, <<"@">> }

Contains(s, part) ==
    \E i \in 1..(Len(s) - Len(part) + 1) : SubSeq(s, i, i + Len(part) - 1) = part

\* The characters of a distribution name.
NameChars ==
    {"a", "b", "c", "d", "e", "f", "g", "h", "i", "j", "k", "l", "m", "n",
     "o", "p", "q", "r", "s", "t", "u", "v", "w", "x", "y", "z",
     "A", "B", "C", "D", "E", "F", "G", "H", "I", "J", "K", "L", "M", "N",
     "O", "P", "Q", "R", "S", "T", "U", "V", "W", "X", "Y", "Z",
     "0", "1", "2", "3", "4", "5", "6", "7", "8", "9", "-", "_", "."}

BareName(s) ==
    /\ Len(s) > 0
    /\ \A i \in 1..Len(s) : s[i] \in NameChars
    /\ \A op \in SpecifierOperators : ~Contains(s, op)

Range(s) == {s[i] : i \in 1..Len(s)}

---------------------------------------------------------------------------
(* Properties of the descriptor. *)

\* C1: the descriptor setup() receives declares exactly two dependencies,
\* named 'openzeppelin-cairo-contracts' and 'cairolib': no other entry is
\* present and neither is missing.
ExactlyTwoDependencies ==
    Called =>
        /\ Len(descriptor["install_requires"]) = 2
        /\ Range(descriptor["install_requires"]) =
             { <<"o", "p", "e", "n", "z", "e", "p", "p", "e", "l", "i", "n",
                 "-", "c", "a", "i", "r", "o", "-", "c", "o", "n", "t", "r",
                 "a", "c", "t", "s">>,
               <<"c", "a", "i", "r", "o", "l", "i", "b">> }

TwoDependenciesPassed ==
    /\ Called
    /\ "install_requires" \in DOMAIN descriptor
    /\ Len(descriptor["install_requires"]) = 2

\* C2: the descriptor declares exactly one package namespace: the packages
\* list has length 1 and its element is 'immutablex'.
ExactlyOnePackage ==
    Called =>
        /\ Len(descriptor["packages"]) = 1
        /\ descriptor["packages"][1] =
             <<"i", "m", "m", "u", "t", "a", "b", "l", "e", "x">>

OnePackagePassed ==
    /\ Called
    /\ "packages" \in DOMAIN descriptor
    /\ descriptor["packages"] # <<>>

\* C3: the license field of the descriptor is the string 'Apache-2.0'.
LicenseIsApache2 ==
    Called =>
        descriptor["license"] = <<"A", "p", "a", "c", "h", "e", "-", "2", ".", "0">>

LicensePassed ==
    /\ Called
    /\ "license" \in DOMAIN descriptor
    /\ Len(descriptor["license"]) = 10

\* C4: the version field of the descriptor is the string '0.1.0'.
VersionIs010 ==
    Called => descriptor["version"] = <<"0", ".", "1", ".", "0">>

VersionPassed ==
    /\ Called
    /\ "version" \in DOMAIN descriptor
    /\ Len(descriptor["version"]) = 5

\* C5: every identity field of the descriptor (name, version, description,
\* url, author, license) is a non-empty string.
IdentityFieldsNonEmpty ==
    Called => \A f \in IdentityFields : Len(descriptor[f]) > 0

\* C6: no entry of install_requires carries a version constraint: each is a
\* bare distribution name, with no '==', '>=', '<=', '~=', '!=', '<', '>' or
\* '@' part.
NoVersionConstraints ==
    Called =>
        \A i \in 1..Len(descriptor["install_requires"]) :
            BareName(descriptor["install_requires"][i])

BareDependenciesPassed ==
    /\ Called
    /\ "install_requires" \in DOMAIN descriptor
    /\ \E i \in 1..Len(descriptor["install_requires"]) :
           Contains(descriptor["install_requires"][i], <<"-">>)

\* C7 as stated: the name field of the descriptor is the string
\* 'Immutable X StarkNet Contracts'.
NameIsTitle ==
    Called =>
        descriptor["name"] =
            <<"I", "m", "m", "u", "t", "a", "b", "l", "e", " ", "X", " ", "S",
              "t", "a", "r", "k", "N", "e", "t", " ", "C", "o", "n", "t", "r",
              "a", "c", "t", "s">>

\* C7: the string 'Immutable X StarkNet Contracts' is the description field
\* of the descriptor; the name field is the string 'immutablex-starknet'.
TitleIsDescription ==
    Called =>
        /\ descriptor["description"] =
             <<"I", "m", "m", "u", "t", "a", "b", "l", "e", " ", "X", " ", "S",
               "t", "a", "r", "k", "N", "e", "t", " ", "C", "o", "n", "t", "r",
               "a", "c", "t", "s">>
        /\ descriptor["name"] =
             <<"i", "m", "m", "u", "t", "a", "b", "l", "e", "x", "-", "s", "t",
               "a", "r", "k", "n", "e", "t">>

NameAndDescriptionPassed ==
    /\ Called
    /\ {"name", "description"} \subseteq DOMAIN descriptor
    /\ descriptor["name"] # descriptor["description"]

AllKeys ==
    {"name", "version", "description", "url", "author", "license", "packages",
     "include_package_data", "install_requires"}

\* C8: the script's only operation is one call of setup() with constant
\* arguments: setup() is called at most once and exactly once when the script
\* is done; the descriptor it receives is the keyword arguments as evaluated,
\* all nine of them, whatever the command line; and no step changes a keyword
\* argument once evaluated, nor the descriptor once passed.
DescriptorIsConstant ==
    /\ [](/\ calls <= 1
          /\ (pc = "done") <=> (calls = 1)
          /\ Called => (descriptor = kwargs /\ DOMAIN descriptor = AllKeys))
    /\ [][/\ \A k \in DOMAIN kwargs :
                 k \in DOMAIN kwargs' /\ kwargs'[k] = kwargs[k]
          /\ Called => descriptor' = descriptor
          /\ script_args' = script_args]_vars

CalledOnceWithCommands ==
    /\ pc = "done"
    /\ calls = 1
    /\ Len(script_args) = MaxArgs
    /\ DOMAIN descriptor = AllKeys

\* C9: the dependency list is well formed as a set: its entries are pairwise
\* distinct, and none is the distribution's own name ('immutablex-starknet')
\* or its bundled package namespace ('immutablex').
NoSelfOrDuplicateDependency ==
    Called =>
        LET reqs == descriptor["install_requires"]
        IN  /\ \A i, j \in 1..Len(reqs) : reqs[i] = reqs[j] => i = j
            /\ \A i \in 1..Len(reqs) :
                   /\ reqs[i] # descriptor["name"]
                   /\ reqs[i] \notin Range(descriptor["packages"])
                   /\ reqs[i] #
                        <<"i", "m", "m", "u", "t", "a", "b", "l", "e", "x", "-",
                          "s", "t", "a", "r", "k", "n", "e", "t">>
                   /\ reqs[i] # <<"i", "m", "m", "u", "t", "a", "b", "l", "e", "x">>

DistinctDependenciesPassed ==
    /\ Called
    /\ {"name", "packages", "install_requires"} \subseteq DOMAIN descriptor
    /\ Cardinality(Range(descriptor["install_requires"])) >= 2

===========================================================================
